---- MODULE Spec2Model ----
(***************************************************************************)
(* Ledger engine of the bank management system (project/models/*.py,       *)
(* project/utils/data_manager.py).                                         *)
(*                                                                         *)
(* Money is modelled in integer minor units.  Python dicts keep insertion  *)
(* order, so the accounts and transactions collections are sequences; the  *)
(* uuid4 key of the n-th inserted record is modelled by the index n.       *)
(* The engine is synchronous and single-threaded: a call runs to its end   *)
(* in one step, then returns its result to the caller (Return).            *)
(***************************************************************************)
EXTENDS Integers, Sequences, FiniteSets, TLC

\* ---- bounds of the model ------------------------------------------------
\* accounts the engine may hold
MaxAccounts == 2
\* length of the transaction log up to which calls are still made
MaxTransactions == 2
\* largest amount a caller passes
MaxAmount == 1

\* ---- program constants --------------------------------------------------
DailyLimitDefault == 50000
MonthlyLimitDefault == 500000

None == 0

\* ids a caller may pass; ids above Len(accounts) are unknown to the engine
AccountIds == 1..MaxAccounts
\* amounts a caller may pass (negative, zero, positive)
Amounts == (0 - 1)..MaxAmount
\* str(random.randint(1000000000, 9999999999)): the two ends of the range
AccountNumbers == {"1000000000", "9999999999"}
\* an account number that generate_account_number cannot produce
UnusedAccountNumber == "999999999"
\* the account_number slot of a call that takes none
NoNumber == ""
\* f"TXN{random.randint(100000, 999999)}": one value of the range (no
\* operation reads the reference number of a record)
RefNumbers == {"TXN100000"}
UserIds == {"u1"}
AccountTypes == {"savings"}

\* TransactionType / TransactionStatus members and their .value strings
TransactionType == {"DEPOSIT", "WITHDRAWAL", "TRANSFER", "FEE"}
TransactionStatus == {"PENDING", "COMPLETED", "FAILED", "CANCELLED"}
TransactionTypeValue == [m \in TransactionType |->
    CASE m = "DEPOSIT" -> "deposit" [] m = "WITHDRAWAL" -> "withdrawal"
      [] m = "TRANSFER" -> "transfer" [] m = "FEE" -> "fee"]
TransactionStatusValue == [m \in TransactionStatus |->
    CASE m = "PENDING" -> "pending" [] m = "COMPLETED" -> "completed"
      [] m = "FAILED" -> "failed" [] m = "CANCELLED" -> "cancelled"]

VARIABLES
    accounts,           \* BankSystem.accounts      (in memory)
    transactions,       \* BankSystem.transactions  (in memory)
    accounts_file,      \* content of data/accounts.json, <<>> before the first write
    transactions_file,  \* content of data/transactions.json, <<>> before the first write
    last,               \* the call that is returning to its caller: its arguments and
                        \* its result; Idle between two calls
    users,              \* AuthManager.users (in memory)
    users_file,         \* content of data/users.json
    other,              \* the collections of the BankSystem of a second UI session
    bank_users          \* BankSystem.users: the users the engine loaded when it
                        \* was constructed

vars == <<accounts, transactions, accounts_file, transactions_file, last,
          users, users_file, other, bank_users>>
ledger_vars == <<accounts, transactions, accounts_file, transactions_file>>
auth_vars == <<users, users_file>>

\* ---- Account ------------------------------------------------------------
Account(account_id, user_id, account_number, account_type, balance) ==
    [account_id |-> account_id, user_id |-> user_id,
     account_number |-> account_number, account_type |-> account_type,
     balance |-> balance, is_active |-> TRUE,
     daily_transaction_limit |-> DailyLimitDefault,
     monthly_transaction_limit |-> MonthlyLimitDefault]

\* Account.create_account: no validation of initial_balance
Account_create_account(account_id, user_id, account_number, account_type, initial_balance) ==
    Account(account_id, user_id, account_number, account_type, initial_balance)

\* faulty variant: the account refuses amounts the engine lets through
Account_deposit_ok_above_one(acc, amount) == amount > 1
Account_deposit_ok(acc, amount) == ~(amount <= 0)
Account_deposit(acc, amount) ==
    IF Account_deposit_ok(acc, amount)
    THEN [acc EXCEPT !.balance = @ + amount] ELSE acc

Account_withdraw_ok(acc, amount) == ~(amount <= 0 \/ amount > acc.balance)
Account_withdraw(acc, amount) ==
    IF Account_withdraw_ok(acc, amount)
    THEN [acc EXCEPT !.balance = @ - amount] ELSE acc

\* transfer_to works on object references: when source and target are the
\* same object the debit and the credit hit the same balance one after the other
Account_transfer_to_ok(acc, amount) == ~(amount <= 0 \/ amount > acc.balance)
\* faulty variant: the target is not credited
Account_transfer_to_debit_only(accs, from, to, amount) ==
    IF Account_transfer_to_ok(accs[from], amount)
    THEN [accs EXCEPT ![from].balance = @ - amount]
    ELSE accs
Account_transfer_to(accs, from, to, amount) ==
    IF Account_transfer_to_ok(accs[from], amount)
    THEN LET debited == [accs EXCEPT ![from].balance = @ - amount]
         IN  [debited EXCEPT ![to].balance = @ + amount]
    ELSE accs

Account_to_dict(acc) ==
    [account_id |-> acc.account_id, user_id |-> acc.user_id,
     account_number |-> acc.account_number, account_type |-> acc.account_type,
     balance |-> acc.balance, is_active |-> acc.is_active,
     daily_transaction_limit |-> acc.daily_transaction_limit,
     monthly_transaction_limit |-> acc.monthly_transaction_limit]

Account_from_dict(data) ==
    [Account(data.account_id, data.user_id, data.account_number,
             data.account_type, data.balance)
        EXCEPT !.is_active = data.is_active,
               !.daily_transaction_limit = data.daily_transaction_limit,
               !.monthly_transaction_limit = data.monthly_transaction_limit]

\* ---- Transaction --------------------------------------------------------
\* faulty variant: the id is not fresh, every record gets the same key
Transaction_create_transaction_same_id(transaction_id, account_id, transaction_type, amount, target_account_id, reference_number) ==
    [transaction_id |-> 1, account_id |-> account_id,
     transaction_type |-> transaction_type, amount |-> amount,
     target_account_id |-> target_account_id, status |-> "PENDING",
     reference_number |-> reference_number, fee |-> 0]

\* str(uuid.uuid4()) is passed in as transaction_id and is fresh
Transaction_create_transaction(transaction_id, account_id, transaction_type, amount, target_account_id, reference_number) ==
    [transaction_id |-> transaction_id, account_id |-> account_id,
     transaction_type |-> transaction_type, amount |-> amount,
     target_account_id |-> target_account_id, status |-> "PENDING",
     reference_number |-> reference_number, fee |-> 0]

\* faulty variant: the record keeps the status it was created with
complete_transaction_noop(t) == t
complete_transaction(t) == [t EXCEPT !.status = "COMPLETED"]
fail_transaction(t) == [t EXCEPT !.status = "FAILED"]

Transaction_to_dict(t) ==
    [transaction_id |-> t.transaction_id, account_id |-> t.account_id,
     transaction_type |-> TransactionTypeValue[t.transaction_type],
     amount |-> t.amount, target_account_id |-> t.target_account_id,
     status |-> TransactionStatusValue[t.status],
     reference_number |-> t.reference_number, fee |-> t.fee]

\* the enum member that has this value: TransactionType(value)
TransactionTypeOf(value) ==
    CHOOSE m \in TransactionType : TransactionTypeValue[m] = value
TransactionStatusOf(value) ==
    CHOOSE m \in TransactionStatus : TransactionStatusValue[m] = value

\* faulty variant: the stored status is not read back
Transaction_from_dict_pending(data) ==
    [Transaction_create_transaction(data.transaction_id, data.account_id,
                                    TransactionTypeOf(data.transaction_type),
                                    data.amount, data.target_account_id,
                                    data.reference_number)
        EXCEPT !.fee = data.fee]

Transaction_from_dict(data) ==
    [Transaction_create_transaction(data.transaction_id, data.account_id,
                                    TransactionTypeOf(data.transaction_type),
                                    data.amount, data.target_account_id,
                                    data.reference_number)
        EXCEPT !.status = TransactionStatusOf(data.status), !.fee = data.fee]

\* ---- DataManager --------------------------------------------------------
save_accounts(accs) == [i \in DOMAIN accs |-> Account_to_dict(accs[i])]
\* faulty variant: the snapshot is taken before the newest record is stored
save_transactions_before_insert(txs) ==
    [i \in 1..(Len(txs) - 1) |-> Transaction_to_dict(txs[i])]
save_transactions(txs) == [i \in DOMAIN txs |-> Transaction_to_dict(txs[i])]

load_accounts(file) == [i \in DOMAIN file |-> Account_from_dict(file[i])]
load_transactions(file) == [i \in DOMAIN file |-> Transaction_from_dict(file[i])]

\* ---- BankSystem queries -------------------------------------------------
\* faulty variant: only active accounts are found by id
get_account_by_id_active(accs, account_id) ==
    IF account_id \in DOMAIN accs /\ accs[account_id].is_active
    THEN account_id ELSE None
get_account_by_id(accs, account_id) ==
    IF account_id \in DOMAIN accs THEN account_id ELSE None

\* faulty variant: the number comparison is lost, any active account matches
get_account_by_number_any(accs, account_number) ==
    LET hits == {i \in DOMAIN accs : accs[i].is_active}
    IN  IF hits = {} THEN None
        ELSE CHOOSE i \in hits : \A j \in hits : i <= j

\* first account, in insertion order, that has the number and is active
get_account_by_number(accs, account_number) ==
    LET hits == {i \in DOMAIN accs :
                    accs[i].account_number = account_number /\ accs[i].is_active}
    IN  IF hits = {} THEN None
        ELSE CHOOSE i \in hits : \A j \in hits : i <= j

RECURSIVE SumBalances(_, _)
SumBalances(accs, ids) ==
    IF ids = {} THEN 0
    ELSE LET i == CHOOSE x \in ids : TRUE
         IN  accs[i].balance + SumBalances(accs, ids \ {i})

get_system_stats(us, accs, txs) ==
    LET active == {i \in DOMAIN accs : accs[i].is_active}
    IN  [total_users |-> Cardinality({i \in DOMAIN us : us[i].is_active}),
         total_accounts |-> Cardinality(active),
         total_balance |-> SumBalances(accs, active),
         total_transactions |-> Len(txs)]

\* faulty variant: the status of the record is not looked at
summed_any_status(t, transaction_type) == t.transaction_type = transaction_type
\* the condition of the three sums of get_transaction_summary
summed(t, transaction_type) ==
    t.transaction_type = transaction_type /\ t.status = "COMPLETED"

\* sum(t.amount for t in txs if t.transaction_type == ... and t.status == ...),
\* added from the first record on
RECURSIVE SumAmounts(_, _, _)
SumAmounts(txs, from, transaction_type) ==
    IF from > Len(txs) THEN 0
    ELSE (IF summed(txs[from], transaction_type) THEN txs[from].amount ELSE 0)
         + SumAmounts(txs, from + 1, transaction_type)

\* start_date <= transaction.created_at <= end_date
in_window(t, now, days) == now - days <= t.created_at /\ t.created_at <= now

get_transaction_summary(txs, now, days) ==
    LET recent_transactions == SelectSeq(txs, LAMBDA t : in_window(t, now, days))
        total_deposits ==
            SumAmounts(recent_transactions, 1, "DEPOSIT")
        total_withdrawals ==
            SumAmounts(recent_transactions, 1, "WITHDRAWAL")
        total_transfers ==
            SumAmounts(recent_transactions, 1, "TRANSFER")
    IN  [period_days |-> days,
         total_transactions |-> Len(recent_transactions),
         total_deposits |-> total_deposits,
         total_withdrawals |-> total_withdrawals,
         total_transfers |-> total_transfers,
         net_flow |-> total_deposits - total_withdrawals]

\* self.transactions[transaction.transaction_id] = transaction: a dict
\* assignment replaces the record stored under the key, or adds it at the end
store_transaction(txs, t) ==
    IF \E k \in DOMAIN txs : txs[k].transaction_id = t.transaction_id
    THEN [k \in DOMAIN txs |->
            IF txs[k].transaction_id = t.transaction_id THEN t ELSE txs[k]]
    ELSE Append(txs, t)

\* the "if initial_balance > 0" of BankSystem.create_account
\* faulty variant: a zero opening balance is recorded as a deposit too
initial_deposit_recorded_for_zero(initial_balance) == initial_balance >= 0
initial_deposit_recorded(initial_balance) == initial_balance > 0

\* ---- guards of the BankSystem operations (the early "return False") -------
deposit_rejected(account, amount) == account = None \/ amount <= 0
\* faulty variant: the amount check of the guard is lost
withdraw_rejected_no_amount(account, amount) == account = None
withdraw_rejected(account, amount) == account = None \/ amount <= 0
transfer_rejected(from_account, to_account, amount) ==
    from_account = None \/ to_account = None \/ amount <= 0

\* the two records BankSystem.transfer builds
transfer_transaction(transaction_id, from_account_id, to_account, amount, ref) ==
    Transaction_create_transaction(transaction_id, from_account_id, "TRANSFER",
                                   amount, to_account, ref)
\* faulty variant: owner and counterpart of the destination's record are swapped
transfer_deposit_transaction_swapped(transaction_id, from_account, to_account, amount, ref) ==
    Transaction_create_transaction(transaction_id, from_account, "DEPOSIT",
                                   amount, to_account, ref)
transfer_deposit_transaction(transaction_id, from_account, to_account, amount, ref) ==
    Transaction_create_transaction(transaction_id, to_account, "DEPOSIT",
                                   amount, from_account, ref)

\* ---- User ---------------------------------------------------------------
\* latest value datetime.now() returns in the model
MaxTime == 2
\* values of datetime.now()
Times == 1..MaxTime
\* usernames and passwords a caller may type
Usernames == {"admin", "alice", "Alice"}
Passwords == {"admin123", "secret"}
\* user ids a caller may pass; ids above Len(users) are unknown
UserIdArgs == 1..(Cardinality(Usernames) + 1)

\* hashlib.sha256(password.encode()).hexdigest(): a digest that differs from
\* every password and is the same for the same password only
hash_password(password) == "sha256:" \o password

\* faulty variant: any password is accepted
verify_password_always(user, password) == TRUE
verify_password(user, password) == user.password_hash = hash_password(password)

User(user_id, username, email, phone, role, password_hash) ==
    [user_id |-> user_id, username |-> username, email |-> email,
     phone |-> phone, role |-> role, password_hash |-> password_hash,
     last_login |-> None, is_active |-> TRUE]

User_create_user(user_id, username, password, email, phone, role) ==
    User(user_id, username, email, phone, role, hash_password(password))

update_last_login(user, now) == [user EXCEPT !.last_login = now]

\* JSON null and the ISO-8601 text of a timestamp
JsonNull == [null |-> TRUE]
isoformat(t) == [iso |-> t]

User_to_dict(user) ==
    [user_id |-> user.user_id, username |-> user.username, email |-> user.email,
     phone |-> user.phone, role |-> user.role,
     password_hash |-> user.password_hash,
     last_login |-> IF user.last_login # None THEN isoformat(user.last_login)
                    ELSE JsonNull,
     is_active |-> user.is_active]

\* datetime.fromisoformat of the text isoformat produced
fromisoformat(text) == text.iso

User_from_dict(data) ==
    [User(data.user_id, data.username, data.email, data.phone, data.role,
          data.password_hash)
        EXCEPT !.last_login = IF data.last_login # JsonNull
                              THEN fromisoformat(data.last_login) ELSE None,
               !.is_active = data.is_active]

save_users(us) == [i \in DOMAIN us |-> User_to_dict(us[i])]
load_users(file) == [i \in DOMAIN file |-> User_from_dict(file[i])]

\* ---- DataManager.load_* on whatever the data directory holds -------------
\* A stored unit is absent, or holds a text; a text is not JSON, or is a JSON
\* value: an object whose members are listed in key order, or a value of
\* another type. A member is a dict of the fields of a record, or a JSON value
\* that is not an object.
MissingFile == [exists |-> FALSE]
StoredText(doc) == [exists |-> TRUE, text |-> doc]
Unparseable == [json |-> "invalid"]
JsonArray == [json |-> "array"]
JsonNumber == [json |-> "number"]
JsonObject(members) == [json |-> "object", members |-> members]
is_dict(member) == "json" \notin DOMAIN member

\* the exceptions the three load functions catch
CaughtByLoad == {"JSONDecodeError", "KeyError", "ValueError"}
NoError == "none"

\* data['key'] for each key in turn: subscripting a value that is not a dict
\* raises TypeError, a dict without the key raises KeyError
subscript_error(data, keys) ==
    IF ~is_dict(data) THEN "TypeError"
    ELSE IF \E k \in keys : k \notin DOMAIN data THEN "KeyError"
    ELSE NoError

\* datetime.fromisoformat(value) if value else None
fromisoformat_error(value) ==
    IF value = JsonNull \/ "iso" \in DOMAIN value THEN NoError
    ELSE IF "str" \in DOMAIN value THEN "ValueError"
    ELSE "TypeError"

Account_from_dict_error(data) ==
    subscript_error(data, {"account_id", "user_id", "account_number",
                           "account_type", "balance"})

Transaction_from_dict_error(data) ==
    IF subscript_error(data, {"transaction_id", "account_id",
                              "transaction_type", "amount"}) # NoError
    THEN subscript_error(data, {"transaction_id", "account_id",
                                "transaction_type", "amount"})
    ELSE IF \A m \in TransactionType : TransactionTypeValue[m] # data.transaction_type
    THEN "ValueError"
    ELSE IF \A m \in TransactionStatus : TransactionStatusValue[m] # data.status
    THEN "ValueError"
    ELSE NoError

User_from_dict_error(data) ==
    IF subscript_error(data, {"user_id", "username", "email", "phone", "role",
                              "password_hash"}) # NoError
    THEN subscript_error(data, {"user_id", "username", "email", "phone", "role",
                                "password_hash"})
    ELSE fromisoformat_error(data.last_login)

\* the exception that ends a load, if any: json.load, then .items(), then
\* from_dict on the members in order (from_dict_errors lists, member by
\* member, what from_dict raises on it)
members_of(file) ==
    IF file.exists /\ file.text.json = "object" THEN file.text.members ELSE <<>>

load_error(file, from_dict_errors) ==
    IF ~file.exists THEN NoError
    ELSE IF file.text = Unparseable THEN "JSONDecodeError"
    ELSE IF file.text.json # "object" THEN "AttributeError"
    ELSE LET bad == {i \in DOMAIN from_dict_errors : from_dict_errors[i] # NoError}
         IN  IF bad = {} THEN NoError
             ELSE from_dict_errors[CHOOSE i \in bad : \A j \in bad : i <= j]

\* what a load gives its caller: the collection, the empty collection after a
\* caught exception, or the exception
LoadOutcome(op, file, error, loaded) ==
    [op |-> op,
     raised |-> error \notin CaughtByLoad \cup {NoError},
     error |-> error,
     value |-> IF error = NoError /\ file.exists THEN loaded ELSE <<>>,
     result |-> TRUE]

load_users_from(file) ==
    LoadOutcome("load_users", file,
                load_error(file, [i \in DOMAIN members_of(file) |->
                                    User_from_dict_error(members_of(file)[i])]),
                load_users(file.text.members))
load_accounts_from(file) ==
    LoadOutcome("load_accounts", file,
                load_error(file, [i \in DOMAIN members_of(file) |->
                                    Account_from_dict_error(members_of(file)[i])]),
                load_accounts(file.text.members))
load_transactions_from(file) ==
    LoadOutcome("load_transactions", file,
                load_error(file, [i \in DOMAIN members_of(file) |->
                                    Transaction_from_dict_error(members_of(file)[i])]),
                load_transactions(file.text.members))

\* ---- AuthManager queries and guards -------------------------------------
get_user(us, user_id) == IF user_id \in DOMAIN us THEN user_id ELSE None

\* faulty variant: the comparison ignores the case of the first letter
username_taken_caseless(us, username) ==
    \E i \in DOMAIN us :
        \/ us[i].username = username
        \/ {us[i].username, username} = {"alice", "Alice"}
\* the loop of register_user: some user already has exactly this username
username_taken(us, username) ==
    \E i \in DOMAIN us : us[i].username = username

\* faulty variant: the active flag is not looked at
authenticate_match_inactive_too(user, username, password) ==
    user.username = username /\ verify_password(user, password)
\* the condition of the loop of authenticate_user
authenticate_match(user, username, password) ==
    user.username = username /\ verify_password(user, password) /\ user.is_active

\* first user, in insertion order, that the loop of authenticate_user returns
authenticate_found(us, username, password) ==
    LET hits == {i \in DOMAIN us : authenticate_match(us[i], username, password)}
    IN  IF hits = {} THEN None
        ELSE CHOOSE i \in hits : \A j \in hits : i <= j

\* AuthManager.create_default_admin
create_default_admin(us) ==
    Append(us, User_create_user(Len(us) + 1, "admin", "admin123",
                                "admin@bank.com", "1234567890", "admin"))

\* faulty variant: the default admin is created whatever was loaded
AuthManager_init_always(loaded) == create_default_admin(loaded)
\* AuthManager.__init__ on the loaded collection
AuthManager_init(loaded) ==
    IF loaded = <<>> THEN create_default_admin(loaded) ELSE loaded

\* no second session is open
NoSession ==
    [open |-> FALSE, users |-> <<>>, accounts |-> <<>>, transactions |-> <<>>]

\* no call is in progress
Idle == [op |-> "none", account_id |-> None, account_number |-> NoNumber,
         amount |-> 0, raised |-> FALSE, result |-> FALSE]

\* ---- initial state: a BankSystem and an AuthManager constructed over an
\* empty data directory (the AuthManager creates and saves the default admin)
Init ==
    /\ accounts = <<>>
    /\ transactions = <<>>
    /\ accounts_file = <<>>
    /\ transactions_file = <<>>
    /\ last = Idle
    /\ users = AuthManager_init(<<>>)
    /\ users_file = save_users(AuthManager_init(<<>>))
    /\ other = NoSession
    /\ bank_users = load_users(<<>>)

\* ---- BankSystem operations ----------------------------------------------
\* What one call on the BankSystem does, as a function of the collections it
\* finds: the collections it leaves in memory, the snapshots it writes (in the
\* order of the code) and the value it returns.
Call(op, account_id, account_number, amount, accs, txs, saves, result) ==
    [op |-> op, account_id |-> account_id, account_number |-> account_number,
     amount |-> amount, accounts |-> accs, transactions |-> txs,
     saves |-> saves, result |-> result]

\* the two snapshots written on a success path, and the one of a failed record
SavesBoth == <<"accounts", "transactions">>
SavesTransactions == <<"transactions">>

create_account_call(accs0, txs0, user_id, account_type, initial_balance, account_number, ref) ==
    LET account_id == Len(accs0) + 1
        account == Account_create_account(account_id, user_id, account_number,
                                          account_type, initial_balance)
        accs == Append(accs0, account)
        transaction == complete_transaction(
            Transaction_create_transaction(Len(txs0) + 1, account_id,
                                           "DEPOSIT", initial_balance, None, ref))
        txs == IF initial_deposit_recorded(initial_balance)
               THEN store_transaction(txs0, transaction)
               ELSE txs0
    IN  Call("create_account", account_id, account_number, initial_balance,
             accs, txs, SavesBoth, TRUE)

deposit_call(accs0, txs0, account_id, amount, ref) ==
    LET account == get_account_by_id(accs0, account_id)
        transaction == Transaction_create_transaction(
            Len(txs0) + 1, account_id, "DEPOSIT", amount, None, ref)
    IN  IF deposit_rejected(account, amount)
        THEN Call("deposit", account_id, NoNumber, amount, accs0, txs0, <<>>, FALSE)
        ELSE IF Account_deposit_ok(accs0[account], amount)
        THEN Call("deposit", account_id, NoNumber, amount,
                  [accs0 EXCEPT ![account] = Account_deposit(accs0[account], amount)],
                  store_transaction(txs0, complete_transaction(transaction)),
                  SavesBoth, TRUE)
        ELSE Call("deposit", account_id, NoNumber, amount, accs0,
                  store_transaction(txs0, fail_transaction(transaction)),
                  SavesTransactions, FALSE)

withdraw_call(accs0, txs0, account_id, amount, ref) ==
    LET account == get_account_by_id(accs0, account_id)
        transaction == Transaction_create_transaction(
            Len(txs0) + 1, account_id, "WITHDRAWAL", amount, None, ref)
    IN  IF withdraw_rejected(account, amount)
        THEN Call("withdraw", account_id, NoNumber, amount, accs0, txs0, <<>>, FALSE)
        ELSE IF Account_withdraw_ok(accs0[account], amount)
        THEN Call("withdraw", account_id, NoNumber, amount,
                  [accs0 EXCEPT ![account] = Account_withdraw(accs0[account], amount)],
                  store_transaction(txs0, complete_transaction(transaction)),
                  SavesBoth, TRUE)
        ELSE Call("withdraw", account_id, NoNumber, amount, accs0,
                  store_transaction(txs0, fail_transaction(transaction)),
                  SavesTransactions, FALSE)

transfer_call(accs0, txs0, from_account_id, to_account_number, amount, ref1, ref2) ==
    LET from_account == get_account_by_id(accs0, from_account_id)
        to_account == get_account_by_number(accs0, to_account_number)
        transaction == transfer_transaction(
            Len(txs0) + 1, from_account_id, to_account, amount, ref1)
        deposit_transaction == transfer_deposit_transaction(
            Len(txs0) + 2, from_account, to_account, amount, ref2)
    IN  IF transfer_rejected(from_account, to_account, amount)
        THEN Call("transfer", from_account_id, to_account_number, amount,
                  accs0, txs0, <<>>, FALSE)
        ELSE IF Account_transfer_to_ok(accs0[from_account], amount)
        THEN Call("transfer", from_account_id, to_account_number, amount,
                  Account_transfer_to(accs0, from_account, to_account, amount),
                  store_transaction(
                      store_transaction(txs0, complete_transaction(transaction)),
                      complete_transaction(deposit_transaction)),
                  SavesBoth, TRUE)
        ELSE Call("transfer", from_account_id, to_account_number, amount, accs0,
                  store_transaction(txs0, fail_transaction(transaction)),
                  SavesTransactions, FALSE)

\* what the caller sees of a call that returned
Returns(call) ==
    [op |-> call.op, account_id |-> call.account_id,
     account_number |-> call.account_number, amount |-> call.amount,
     raised |-> FALSE, result |-> call.result]

\* the call runs to its return statement: memory is updated and every
\* snapshot of call.saves is written in full
Completes(call) ==
    /\ accounts' = call.accounts
    /\ transactions' = call.transactions
    /\ accounts_file' = IF \E k \in DOMAIN call.saves : call.saves[k] = "accounts"
                        THEN save_accounts(call.accounts) ELSE accounts_file
    /\ transactions_file' = IF \E k \in DOMAIN call.saves : call.saves[k] = "transactions"
                            THEN save_transactions(call.transactions)
                            ELSE transactions_file
    /\ last' = Returns(call)

create_account(user_id, account_type, initial_balance, account_number, ref) ==
    /\ last = Idle
    /\ Len(accounts) < MaxAccounts
    /\ Len(transactions) < MaxTransactions
    /\ Completes(create_account_call(accounts, transactions, user_id, account_type,
                                     initial_balance, account_number, ref))

\* faulty variant: only the account is validated and the balance is credited directly
deposit_unchecked(account_id, amount, ref) ==
    LET account == get_account_by_id(accounts, account_id)
        transaction == Transaction_create_transaction(
            Len(transactions) + 1, account_id, "DEPOSIT", amount, None, ref)
        accs == IF account = None THEN accounts
                ELSE [accounts EXCEPT ![account].balance = @ + amount]
        txs == IF account = None THEN transactions
               ELSE store_transaction(transactions, complete_transaction(transaction))
    IN  /\ last = Idle
        /\ Len(transactions) < MaxTransactions
        /\ last' = [op |-> "deposit", account_id |-> account_id,
                    account_number |-> NoNumber, amount |-> amount,
                    raised |-> FALSE, result |-> (account # None)]
        /\ accounts' = accs
        /\ transactions' = txs
        /\ accounts_file' = IF account = None THEN accounts_file ELSE save_accounts(accs)
        /\ transactions_file' = IF account = None THEN transactions_file
                                ELSE save_transactions(txs)

deposit(account_id, amount, ref) ==
    /\ last = Idle
    /\ Len(transactions) < MaxTransactions
    /\ Completes(deposit_call(accounts, transactions, account_id, amount, ref))

withdraw(account_id, amount, ref) ==
    /\ last = Idle
    /\ Len(transactions) < MaxTransactions
    /\ Completes(withdraw_call(accounts, transactions, account_id, amount, ref))

transfer(from_account_id, to_account_number, amount, ref1, ref2) ==
    /\ last = Idle
    /\ Len(transactions) < MaxTransactions
    /\ Completes(transfer_call(accounts, transactions, from_account_id,
                               to_account_number, amount, ref1, ref2))

CreateAccount ==
    /\ \E user_id \in UserIds, account_type \in AccountTypes,
          initial_balance \in Amounts, account_number \in AccountNumbers,
          ref \in RefNumbers :
           create_account(user_id, account_type, initial_balance, account_number, ref)
    /\ UNCHANGED <<users, users_file, other, bank_users>>

Deposit ==
    /\ \E account_id \in AccountIds, amount \in Amounts, ref \in RefNumbers :
           deposit(account_id, amount, ref)
    /\ UNCHANGED <<users, users_file, other, bank_users>>

Withdraw ==
    /\ \E account_id \in AccountIds, amount \in Amounts, ref \in RefNumbers :
           withdraw(account_id, amount, ref)
    /\ UNCHANGED <<users, users_file, other, bank_users>>

Transfer ==
    /\ \E from_account_id \in AccountIds,
          to_account_number \in AccountNumbers \cup {UnusedAccountNumber},
          amount \in Amounts, ref1 \in RefNumbers, ref2 \in RefNumbers :
           transfer(from_account_id, to_account_number, amount, ref1, ref2)
    /\ UNCHANGED <<users, users_file, other, bank_users>>

\* the synchronous call returns its result; the engine waits for the next call
Return ==
    /\ last # Idle
    /\ last' = Idle
    /\ UNCHANGED <<accounts, transactions, accounts_file, transactions_file>>
    /\ UNCHANGED <<users, users_file, other, bank_users>>

Next == CreateAccount \/ Deposit \/ Withdraw \/ Transfer \/ Return

Spec == Init /\ [][Next]_vars

\* ---- the ledger opened with balances that are not negative ----------------
CreateAccountNonNegative ==
    /\ \E user_id \in UserIds, account_type \in AccountTypes,
          initial_balance \in {a \in Amounts : a >= 0},
          account_number \in AccountNumbers, ref \in RefNumbers :
           create_account(user_id, account_type, initial_balance, account_number, ref)
    /\ UNCHANGED <<users, users_file, other, bank_users>>

NextNonNegative ==
    CreateAccountNonNegative \/ Deposit \/ Withdraw \/ Transfer \/ Return

SpecNonNegative == Init /\ [][NextNonNegative]_vars

\* ---- the ledger over a store that holds inactive accounts ----------------
\* No operation deactivates an account; an inactive account is one that the
\* accounts file holds with is_active false and Account.from_dict loads. The
\* store holds two funded accounts, each active or not, with any numbers.
StoredAccountPairs ==
    {<<Account_to_dict([Account(1, "u1", n1, "savings", MaxAmount)
                           EXCEPT !.is_active = a1]),
       Account_to_dict([Account(2, "u1", n2, "savings", MaxAmount)
                           EXCEPT !.is_active = a2])>> :
        n1 \in AccountNumbers, n2 \in AccountNumbers,
        a1 \in BOOLEAN, a2 \in BOOLEAN}

InitStoredAccounts ==
    /\ accounts_file \in StoredAccountPairs
    /\ accounts = load_accounts(accounts_file)
    /\ transactions = <<>>
    /\ transactions_file = <<>>
    /\ last = Idle
    /\ users = AuthManager_init(<<>>)
    /\ users_file = save_users(AuthManager_init(<<>>))
    /\ other = NoSession
    /\ bank_users = load_users(<<>>)

NextStoredAccounts == Deposit \/ Withdraw \/ Transfer \/ Return

SpecStoredAccounts == InitStoredAccounts /\ [][NextStoredAccounts]_vars

\* ---- AuthManager operations ---------------------------------------------
\* what a call on the AuthManager returns to its caller
AuthCall(op, user_id, username, password, new_password, result, user) ==
    [op |-> op, user_id |-> user_id, username |-> username,
     password |-> password, new_password |-> new_password,
     raised |-> FALSE, result |-> result, user |-> user]

register_user(username, password, email, phone, role) ==
    LET new_user == User_create_user(Len(users) + 1, username, password,
                                     email, phone, role)
        us == Append(users, new_user)
    IN  /\ last = Idle
        /\ last' = AuthCall("register_user", None, username, password, "",
                            ~username_taken(users, username), None)
        /\ IF username_taken(users, username)
           THEN UNCHANGED <<users, users_file>>
           ELSE /\ users' = us
                /\ users_file' = save_users(us)

authenticate_user(username, password, now) ==
    LET user == authenticate_found(users, username, password)
        us == [users EXCEPT ![user] = update_last_login(users[user], now)]
    IN  /\ last = Idle
        /\ \A i \in DOMAIN users : users[i].last_login <= now
        /\ last' = AuthCall("authenticate_user", None, username, password, "",
                            user # None, user)
        /\ IF user # None
           THEN /\ users' = us
                /\ users_file' = save_users(us)
           ELSE UNCHANGED <<users, users_file>>

deactivate_user(user_id) ==
    LET user == get_user(users, user_id)
        us == [users EXCEPT ![user].is_active = FALSE]
    IN  /\ last = Idle
        /\ last' = AuthCall("deactivate_user", user_id, "", "", "",
                            user # None, None)
        /\ IF user = None
           THEN UNCHANGED <<users, users_file>>
           ELSE /\ users' = us
                /\ users_file' = save_users(us)

\* faulty variant: the old password is not verified
change_password_unverified(user_id, old_password, new_password) ==
    LET user == get_user(users, user_id)
        us == [users EXCEPT ![user].password_hash = hash_password(new_password)]
    IN  /\ last = Idle
        /\ last' = AuthCall("change_password", user_id, "", old_password,
                            new_password, user # None, None)
        /\ IF user = None
           THEN UNCHANGED <<users, users_file>>
           ELSE /\ users' = us
                /\ users_file' = save_users(us)

change_password(user_id, old_password, new_password) ==
    LET user == get_user(users, user_id)
        rejected == user = None \/ ~verify_password(users[user], old_password)
        us == [users EXCEPT ![user].password_hash = hash_password(new_password)]
    IN  /\ last = Idle
        /\ last' = AuthCall("change_password", user_id, "", old_password,
                            new_password, ~rejected, None)
        /\ IF rejected
           THEN UNCHANGED <<users, users_file>>
           ELSE /\ users' = us
                /\ users_file' = save_users(us)

RegisterUser ==
    /\ \E username \in Usernames, password \in Passwords :
           register_user(username, password, "user@bank.com", "5550100", "customer")
    /\ UNCHANGED <<ledger_vars, other, bank_users>>

AuthenticateUser ==
    /\ \E username \in Usernames, password \in Passwords, now \in Times :
           authenticate_user(username, password, now)
    /\ UNCHANGED <<ledger_vars, other, bank_users>>

DeactivateUser ==
    /\ \E user_id \in UserIdArgs : deactivate_user(user_id)
    /\ UNCHANGED <<ledger_vars, other, bank_users>>

ChangePassword ==
    /\ \E user_id \in UserIdArgs, old_password \in Passwords,
          new_password \in Passwords :
           change_password(user_id, old_password, new_password)
    /\ UNCHANGED <<ledger_vars, other, bank_users>>

NextAuth ==
    RegisterUser \/ AuthenticateUser \/ DeactivateUser \/ ChangePassword \/ Return

\* the identity store under register, authenticate, change password, deactivate
SpecAuth == Init /\ [][NextAuth]_vars

\* ---- AuthManager.update_user ----------------------------------------------
\* keyword arguments a caller may pass: attributes of a user and a name that
\* is no attribute, with values of the attribute's type
TextArguments ==
    {[key |-> k, value |-> u] : k \in {"username", "nickname"}, u \in Usernames}
FlagArguments == {[key |-> "is_active", value |-> a] : a \in BOOLEAN}

\* hasattr(user, key)
hasattr(user, key) == key \in DOMAIN user

\* setattr(user, key, value) for the keys the user has
setattr_known(user, kwargs) ==
    IF hasattr(user, kwargs.key)
    THEN [k \in DOMAIN user |-> IF k = kwargs.key THEN kwargs.value ELSE user[k]]
    ELSE user

update_user(user_id, kwargs) ==
    LET user == get_user(users, user_id)
        us == [users EXCEPT ![user] = setattr_known(users[user], kwargs)]
    IN  /\ last = Idle
        /\ last' = AuthCall("update_user", user_id, "", "", "", user # None, None)
        /\ IF user = None
           THEN UNCHANGED <<users, users_file>>
           ELSE /\ users' = us
                /\ users_file' = save_users(us)

UpdateUser ==
    /\ \E user_id \in UserIdArgs :
           \/ \E kwargs \in TextArguments : update_user(user_id, kwargs)
           \/ \E kwargs \in FlagArguments : update_user(user_id, kwargs)
    /\ UNCHANGED <<ledger_vars, other, bank_users>>

\* most users the store holds when usernames can be freed by renaming
MaxUsers == 2

\* register_user while the store is not full
RegisterUserBounded ==
    /\ Len(users) < MaxUsers
    /\ RegisterUser

NextIdentity ==
    \/ RegisterUserBounded \/ AuthenticateUser \/ DeactivateUser
    \/ ChangePassword \/ UpdateUser \/ Return

\* the identity store with every operation that writes it
SpecIdentity == Init /\ [][NextIdentity]_vars

\* ---- AuthManager start-up ------------------------------------------------
\* A UI session starts and constructs its AuthManager: the users are loaded
\* from the snapshot, and the default admin is created and saved if none was
\* loaded.
StartUp ==
    /\ last = Idle
    /\ users' = AuthManager_init(load_users(users_file))
    /\ users_file' = IF load_users(users_file) = <<>>
                     THEN save_users(AuthManager_init(load_users(users_file)))
                     ELSE users_file
    /\ last' = AuthCall("AuthManager", None, "", "", "", TRUE, None)
    /\ UNCHANGED <<ledger_vars, other, bank_users>>

\* The users file is removed or damaged from outside the program: load_users
\* then returns the empty collection.
UsersFileLost ==
    /\ last = Idle
    /\ users_file # <<>>
    /\ users_file' = <<>>
    /\ UNCHANGED <<ledger_vars, users, last, other, bank_users>>

NextStartUp ==
    \/ RegisterUser \/ AuthenticateUser \/ DeactivateUser \/ ChangePassword
    \/ Return \/ StartUp \/ UsersFileLost

\* the identity store with sessions that start over the stored users
SpecStartUp == Init /\ [][NextStartUp]_vars

\* ---- the DataManager over arbitrary collections and stored units ---------
\* most records in a collection or stored unit of the fixtures
MaxRecords == 2

\* sequences of at most MaxRecords elements of S
SeqUpTo(S) == UNION {[1..n -> S] : n \in 0..MaxRecords}

UserFixtures ==
    {[User(1, "alice", "user@bank.com", "5550100", "customer", hash_password("secret"))
        EXCEPT !.last_login = l, !.is_active = a] :
        l \in {None} \cup Times, a \in BOOLEAN}
AccountFixtures ==
    {[Account(1, "u1", "1000000000", "savings", b)
        EXCEPT !.is_active = a, !.daily_transaction_limit = d] :
        b \in Amounts, a \in BOOLEAN, d \in {DailyLimitDefault, 1}}
TransactionFixtures ==
    {[Transaction_create_transaction(1, 1, ty, 1, tg, "TXN100000")
        EXCEPT !.status = st] :
        ty \in {"DEPOSIT", "TRANSFER"}, tg \in {None, 2},
        st \in TransactionStatus}

\* a dict that lacks one key
Without(data, key) == [k \in DOMAIN data \ {key} |-> data[k]]

\* members a damaged unit may hold next to well-formed ones
UserMembers ==
    {User_to_dict(u) : u \in UserFixtures}
    \cup {Without(User_to_dict(u), "password_hash") : u \in UserFixtures}
    \cup {[User_to_dict(u) EXCEPT !.last_login = [str |-> "yesterday"]] : u \in UserFixtures}
    \cup {JsonNumber}
AccountMembers ==
    {Account_to_dict(a) : a \in AccountFixtures}
    \cup {Without(Account_to_dict(a), "balance") : a \in AccountFixtures}
    \cup {JsonNumber}
TransactionMembers ==
    {Transaction_to_dict(t) : t \in TransactionFixtures}
    \cup {Without(Transaction_to_dict(t), "amount") : t \in TransactionFixtures}
    \cup {[Transaction_to_dict(t) EXCEPT !.transaction_type = "refund"] : t \in TransactionFixtures}
    \cup {JsonNumber}

\* what a unit may hold
StoredUnits(members) ==
    {MissingFile, StoredText(Unparseable), StoredText(JsonArray)}
    \cup {StoredText(JsonObject(m)) : m \in SeqUpTo(members)}

\* One collection is under test: either it is held in memory and its unit is
\* absent, or nothing is in memory and the unit holds any content.
InitStore ==
    /\ last = Idle
    /\ other = NoSession
    /\ bank_users = <<>>
    /\ \E kind \in {"users", "accounts", "transactions"} :
        \E in_memory \in BOOLEAN :
           /\ users \in (IF kind = "users" /\ in_memory
                          THEN SeqUpTo(UserFixtures) ELSE {<<>>})
           /\ users_file \in (IF kind = "users" /\ ~in_memory
                               THEN StoredUnits(UserMembers) ELSE {MissingFile})
           /\ accounts \in (IF kind = "accounts" /\ in_memory
                             THEN SeqUpTo(AccountFixtures) ELSE {<<>>})
           /\ accounts_file \in (IF kind = "accounts" /\ ~in_memory
                                  THEN StoredUnits(AccountMembers) ELSE {MissingFile})
           /\ transactions \in (IF kind = "transactions" /\ in_memory
                                 THEN SeqUpTo(TransactionFixtures) ELSE {<<>>})
           /\ transactions_file \in (IF kind = "transactions" /\ ~in_memory
                                      THEN StoredUnits(TransactionMembers)
                                      ELSE {MissingFile})

\* what the caller of a save sees
Saved(op) == [op |-> op, raised |-> FALSE, result |-> TRUE]

SaveUsers ==
    /\ last = Idle
    /\ users_file' = StoredText(JsonObject(save_users(users)))
    /\ last' = Saved("save_users")
    /\ UNCHANGED <<ledger_vars, users, other, bank_users>>

SaveAccounts ==
    /\ last = Idle
    /\ accounts_file' = StoredText(JsonObject(save_accounts(accounts)))
    /\ last' = Saved("save_accounts")
    /\ UNCHANGED <<accounts, transactions, transactions_file, auth_vars, other, bank_users>>

SaveTransactions ==
    /\ last = Idle
    /\ transactions_file' = StoredText(JsonObject(save_transactions(transactions)))
    /\ last' = Saved("save_transactions")
    /\ UNCHANGED <<accounts, transactions, accounts_file, auth_vars, other, bank_users>>

\* the caller keeps what the load returned; an exception leaves it with what
\* it had
LoadUsers ==
    /\ last = Idle
    /\ last' = load_users_from(users_file)
    /\ users' = IF last'.raised THEN users ELSE last'.value
    /\ UNCHANGED <<ledger_vars, users_file, other, bank_users>>

LoadAccounts ==
    /\ last = Idle
    /\ last' = load_accounts_from(accounts_file)
    /\ accounts' = IF last'.raised THEN accounts ELSE last'.value
    /\ UNCHANGED <<transactions, accounts_file, transactions_file, auth_vars, other, bank_users>>

LoadTransactions ==
    /\ last = Idle
    /\ last' = load_transactions_from(transactions_file)
    /\ transactions' = IF last'.raised THEN transactions ELSE last'.value
    /\ UNCHANGED <<accounts, accounts_file, transactions_file, auth_vars, other, bank_users>>

NextStore ==
    \/ SaveUsers \/ SaveAccounts \/ SaveTransactions
    \/ LoadUsers \/ LoadAccounts \/ LoadTransactions
    \/ Return

\* the three collections saved to and loaded from their units
SpecStore == InitStore /\ [][NextStore]_vars

\* ---- get_transaction_summary over arbitrary logs -------------------------
\* a transaction with the time it was created
Stamped(t, created_at) ==
    [k \in DOMAIN t \cup {"created_at"} |->
        IF k = "created_at" THEN created_at ELSE t[k]]

\* records of every type the summary adds up, completed or failed, of
\* different amounts, created at any time
SummaryFixtures ==
    {Stamped([complete_transaction(
                  Transaction_create_transaction(1, 1, ty, amount, None, "TXN100000"))
                EXCEPT !.status = st], created_at) :
        ty \in {"DEPOSIT", "WITHDRAWAL", "TRANSFER"},
        st \in {"COMPLETED", "FAILED"},
        amount \in 1..(MaxAmount + 1),
        created_at \in 0..MaxTime}

InitSummary ==
    /\ accounts = <<>>
    /\ accounts_file = <<>>
    /\ transactions \in SeqUpTo(SummaryFixtures)
    /\ transactions_file = <<>>
    /\ users = <<>>
    /\ users_file = <<>>
    /\ other = NoSession
    /\ bank_users = <<>>
    /\ last = Idle

GetTransactionSummary ==
    /\ last = Idle
    /\ \E now \in Times, days \in 0..1 :
           last' = [op |-> "get_transaction_summary", now |-> now, days |-> days,
                    raised |-> FALSE, result |-> TRUE,
                    summary |-> get_transaction_summary(transactions, now, days)]
    /\ UNCHANGED <<ledger_vars, auth_vars, other, bank_users>>

NextSummary == GetTransactionSummary \/ Return

\* the summary asked for over any log
SpecSummary == InitSummary /\ [][NextSummary]_vars

\* ---- the admin dashboard ---------------------------------------------------
GetSystemStats ==
    /\ last = Idle
    /\ last' = [op |-> "get_system_stats", raised |-> FALSE, result |-> TRUE,
                stats |-> get_system_stats(bank_users, accounts, transactions)]
    /\ UNCHANGED <<ledger_vars, auth_vars, other, bank_users>>

\* A UI session starts anew (the page is reloaded in a new browser session):
\* its BankSystem loads users, accounts and transactions from the snapshots.
NewBankSystem ==
    /\ last = Idle
    /\ bank_users' = load_users(users_file)
    /\ accounts' = load_accounts(accounts_file)
    /\ transactions' = load_transactions(transactions_file)
    /\ UNCHANGED <<accounts_file, transactions_file, auth_vars, last, other>>

NextStats ==
    \/ CreateAccount \/ Deposit \/ RegisterUser \/ DeactivateUser \/ Return
    \/ NewBankSystem \/ GetSystemStats

\* the engine's statistics while users register and are deactivated and
\* accounts are opened and credited
SpecStats == Init /\ [][NextStats]_vars

\* ---- two UI sessions over one data directory ----------------------------
\* A second UI session starts: initialize_session_state constructs its own
\* BankSystem, which loads its own copy of the collections from the snapshots.
OpenSession ==
    /\ last = Idle
    /\ ~other.open
    /\ other' = [open |-> TRUE, users |-> load_users(users_file),
                 accounts |-> load_accounts(accounts_file),
                 transactions |-> load_transactions(transactions_file)]
    /\ UNCHANGED <<ledger_vars, last, users, users_file, bank_users>>

\* The next call comes from the other session: its BankSystem, with the
\* collections it holds in memory, becomes the one that acts.
SwitchSession ==
    /\ last = Idle
    /\ other.open
    /\ accounts' = other.accounts
    /\ transactions' = other.transactions
    /\ bank_users' = other.users
    /\ other' = [open |-> TRUE, users |-> bank_users, accounts |-> accounts,
                 transactions |-> transactions]
    /\ UNCHANGED <<accounts_file, transactions_file, last, users, users_file>>

NextSessions ==
    \/ CreateAccount \/ Deposit \/ Withdraw \/ Return
    \/ OpenSession \/ SwitchSession

\* accounts opened, credited and debited from two sessions whose calls do not
\* overlap in time
SpecSessions == Init /\ [][NextSessions]_vars

\* ---- writes that fail and processes that stop ----------------------------
\* every call a caller can make on the BankSystem in the current state
LedgerCalls ==
    IF Len(transactions) >= MaxTransactions THEN {} ELSE
    {create_account_call(accounts, transactions, user_id, account_type,
                         initial_balance, account_number, ref) :
        user_id \in UserIds, account_type \in AccountTypes,
        initial_balance \in (IF Len(accounts) < MaxAccounts THEN Amounts ELSE {}),
        account_number \in AccountNumbers, ref \in RefNumbers}
    \cup {deposit_call(accounts, transactions, account_id, amount, ref) :
        account_id \in AccountIds, amount \in Amounts, ref \in RefNumbers}
    \cup {withdraw_call(accounts, transactions, account_id, amount, ref) :
        account_id \in AccountIds, amount \in Amounts, ref \in RefNumbers}
    \cup {transfer_call(accounts, transactions, from_account_id,
                        to_account_number, amount, ref1, ref2) :
        from_account_id \in AccountIds,
        to_account_number \in AccountNumbers \cup {UnusedAccountNumber},
        amount \in Amounts, ref1 \in RefNumbers, ref2 \in RefNumbers}

\* open(file, 'w') has emptied the file and json.dump did not finish: the
\* load_* functions read such a file as the empty collection (JSONDecodeError)
TruncatedFile == <<>>

\* place of the snapshot in the order of the call's saves, 0 if it is not saved
SavePosition(call, snapshot) ==
    IF \E j \in DOMAIN call.saves : call.saves[j] = snapshot
    THEN CHOOSE j \in DOMAIN call.saves : call.saves[j] = snapshot
    ELSE 0

\* the file of a snapshot when the call's first `done` saves have completed and
\* the next one has not: that one has either not opened the file or cut it
FileAfter(call, snapshot, done, cut, old, new) ==
    IF SavePosition(call, snapshot) = 0 THEN old
    ELSE IF SavePosition(call, snapshot) <= done THEN new
    ELSE IF SavePosition(call, snapshot) = done + 1 /\ cut THEN TruncatedFile
    ELSE old

\* A save raises (disk full, permission, I/O error). No operation of the
\* BankSystem catches it: the assignments made so far stay in memory, the
\* later saves are skipped and the exception reaches the caller.
SaveFails ==
    /\ last = Idle
    /\ \E call \in LedgerCalls, cut \in BOOLEAN :
       \E done \in 0..(Len(call.saves) - 1) :
           /\ accounts' = call.accounts
           /\ transactions' = call.transactions
           /\ accounts_file' = FileAfter(call, "accounts", done, cut, accounts_file,
                                         save_accounts(call.accounts))
           /\ transactions_file' = FileAfter(call, "transactions", done, cut,
                                             transactions_file,
                                             save_transactions(call.transactions))
           /\ last' = [Returns(call) EXCEPT !.raised = TRUE, !.result = FALSE]
    /\ UNCHANGED <<users, users_file, other, bank_users>>

\* the caller's view of a call during which the process stopped
Stopped(call) ==
    [op |-> call.op, account_id |-> call.account_id,
     account_number |-> call.account_number, amount |-> call.amount,
     raised |-> FALSE, result |-> FALSE, stopped |-> TRUE]

\* The process stops (kill, power loss) inside a call that was on its success
\* path, before the last of its saves has completed; the application is
\* started again and loads its collections from the files.
Crash ==
    /\ last = Idle
    /\ \E call \in LedgerCalls, cut \in BOOLEAN :
       \E done \in 0..(Len(call.saves) - 1) :
           /\ call.result
           /\ accounts_file' = FileAfter(call, "accounts", done, cut, accounts_file,
                                         save_accounts(call.accounts))
           /\ transactions_file' = FileAfter(call, "transactions", done, cut,
                                             transactions_file,
                                             save_transactions(call.transactions))
           /\ accounts' = load_accounts(accounts_file')
           /\ transactions' = load_transactions(transactions_file')
           /\ last' = Stopped(call)
    /\ users' = AuthManager_init(load_users(users_file))
    /\ bank_users' = load_users(users_file)
    /\ other' = NoSession
    /\ UNCHANGED users_file

\* the caller goes on after a call that returned a value
ReturnOfValue ==
    /\ Return
    /\ ~last.raised
    /\ "stopped" \notin DOMAIN last

NextIO ==
    \/ CreateAccount \/ Deposit \/ Withdraw \/ Transfer \/ ReturnOfValue
    \/ SaveFails \/ Crash

\* the ledger on a machine where a write can fail and the process can stop;
\* a behaviour is followed up to the first failed write or stop
SpecIO == Init /\ [][NextIO]_vars

\* ---- vocabulary of the properties ---------------------------------------
\* balance of every account, as a function of the account id
Balances(accs) == [i \in DOMAIN accs |-> accs[i].balance]
\* the active accounts that carry a given account number
ActiveWithNumber(accs, n) ==
    {i \in DOMAIN accs : accs[i].account_number = n /\ accs[i].is_active}
\* the records of txs beyond the first n (the ones a step has added)
Added(txs, n) == {txs[k] : k \in (n + 1)..Len(txs)}
\* the step keeps every stored record and adds exactly k new ones
AddsRecords(k) ==
    /\ Len(transactions') = Len(transactions) + k
    /\ \A i \in DOMAIN transactions : transactions'[i] = transactions[i]
NothingChanges ==
    UNCHANGED <<accounts, transactions, accounts_file, transactions_file>>

\* C1: for every account, balance >= 0 in every state reachable from the
\* empty store by create_account (any initial_balance), deposit, withdraw
\* and transfer.
C1_BalanceNonNegative ==
    \A i \in DOMAIN accounts : accounts[i].balance >= 0

\* C2: a transfer from existing account A to the account number of active
\* account B with 0 < amount <= balance(A) succeeds, debits A by amount,
\* credits B by amount, leaves the other balances and the total balance of
\* the active accounts unchanged.
C2_TransferMovesFunds ==
    [][\A A \in DOMAIN accounts, B \in DOMAIN accounts :
        (/\ last'.op = "transfer"
         /\ last'.account_id = A
         /\ accounts[B].is_active
         /\ last'.account_number = accounts[B].account_number
         /\ 0 < last'.amount
         /\ last'.amount <= accounts[A].balance)
        => /\ last'.result
           /\ DOMAIN accounts' = DOMAIN accounts
           /\ accounts'[A].balance = accounts[A].balance - last'.amount
           /\ accounts'[B].balance = accounts[B].balance + last'.amount
           /\ \A i \in DOMAIN accounts \ {A, B} :
                 accounts'[i].balance = accounts[i].balance
           /\ get_system_stats(bank_users', accounts', transactions').total_balance
                = get_system_stats(bank_users, accounts, transactions).total_balance]_vars

\* C3: a successful transfer adds exactly two records and no others: a
\* completed transfer record owned by the source that targets the
\* destination, and a completed deposit record owned by the destination
\* that targets the source, both carrying the transferred amount.
C3_TransferWritesTwoRecords ==
    [][(last'.op = "transfer" /\ last'.result)
        => /\ AddsRecords(2)
           /\ \E dst \in ActiveWithNumber(accounts, last'.account_number) :
                LET n == Len(transactions)
                    t == transactions'[n + 1]
                    d == transactions'[n + 2]
                IN  /\ t.transaction_id # d.transaction_id
                    /\ \A k \in DOMAIN transactions :
                          transactions[k].transaction_id
                             \notin {t.transaction_id, d.transaction_id}
                    /\ t.transaction_type = "TRANSFER"
                    /\ t.account_id = last'.account_id
                    /\ t.target_account_id = dst
                    /\ d.transaction_type = "DEPOSIT"
                    /\ d.account_id = dst
                    /\ d.target_account_id = last'.account_id
                    /\ t.amount = last'.amount /\ d.amount = last'.amount
                    /\ t.status = "COMPLETED" /\ d.status = "COMPLETED"]_vars

\* a successful transfer between two different accounts has just returned
C3_Witness ==
    /\ last.op = "transfer" /\ last.result
    /\ Len(transactions) >= 2
    /\ transactions[Len(transactions)].transaction_type = "DEPOSIT"
    /\ transactions[Len(transactions)].account_id # last.account_id
    /\ transactions[Len(transactions) - 1].transaction_type = "TRANSFER"

\* C4: a transfer whose destination number is the source's own account
\* number fails and changes nothing, for every amount and source balance.
C4_SelfTransferFails ==
    [][\A A \in DOMAIN accounts :
        (/\ last'.op = "transfer"
         /\ last'.account_id = A
         /\ last'.account_number = accounts[A].account_number)
        => /\ ~last'.result
           /\ Balances(accounts') = Balances(accounts)
           /\ transactions' = transactions]_vars

\* C5: a transfer to an account number that no account has fails and
\* changes nothing: balances, transactions and both snapshots are unchanged.
C5_TransferToUnknownNumber ==
    [][(/\ last'.op = "transfer"
        /\ \A i \in DOMAIN accounts :
              accounts[i].account_number # last'.account_number)
        => /\ ~last'.result
           /\ NothingChanges]_vars

\* a transfer from an existing, funded account to a number nobody has
C5_Witness ==
    /\ last.op = "transfer"
    /\ last.account_id \in DOMAIN accounts
    /\ last.amount > 0
    /\ accounts[last.account_id].balance >= last.amount
    /\ \A i \in DOMAIN accounts : accounts[i].account_number # last.account_number
    /\ ~last.result

\* C6: a withdraw on an existing account with amount > balance fails,
\* leaves every balance unchanged and adds exactly one record: a failed
\* withdrawal on that account.
C6_OverdrawRecordedAsFailed ==
    [][\A A \in DOMAIN accounts :
        (/\ last'.op = "withdraw"
         /\ last'.account_id = A
         /\ last'.amount > accounts[A].balance)
        => /\ ~last'.result
           /\ Balances(accounts') = Balances(accounts)
           /\ AddsRecords(1)
           /\ LET t == transactions'[Len(transactions')]
              IN  /\ t.transaction_type = "WITHDRAWAL"
                  /\ t.account_id = A
                  /\ t.status = "FAILED"]_vars

\* C7: a deposit with amount <= 0 fails and leaves the balance of every
\* account unchanged.
C7_DepositNonPositiveFails ==
    [][(last'.op = "deposit" /\ last'.amount <= 0)
        => /\ ~last'.result
           /\ Balances(accounts') = Balances(accounts)]_vars

\* a deposit of a non-positive amount on an existing account has returned
C7_Witness ==
    /\ last.op = "deposit"
    /\ last.amount <= 0
    /\ last.account_id \in DOMAIN accounts
    /\ ~last.result

\* C8: a deposit, withdraw or transfer rejected for an unknown account id or
\* account number, or for amount <= 0, adds no record and writes nothing;
\* the only rejected calls that add a record are withdraws and transfers
\* rejected for insufficient funds, and that record has status failed.
C8_RejectedCalls ==
    [][(last'.op \in {"deposit", "withdraw", "transfer"} /\ ~last'.result)
        => LET unknown ==
                 \/ last'.account_id \notin DOMAIN accounts
                 \/ /\ last'.op = "transfer"
                    /\ ActiveWithNumber(accounts, last'.account_number) = {}
               invalid == last'.amount <= 0
           IN  IF unknown \/ invalid
               THEN NothingChanges
               ELSE /\ last'.op \in {"withdraw", "transfer"}
                    /\ last'.amount > accounts[last'.account_id].balance
                    /\ AddsRecords(1)
                    /\ transactions'[Len(transactions')].status = "FAILED"]_vars

\* a transfer between known accounts has been rejected for insufficient
\* funds and its failed record is the newest one
C8_Witness ==
    /\ last.op = "transfer" /\ ~last.result
    /\ last.account_id \in DOMAIN accounts
    /\ ActiveWithNumber(accounts, last.account_number) # {}
    /\ last.amount > 0
    /\ last.amount > accounts[last.account_id].balance
    /\ Len(transactions) > 0
    /\ transactions[Len(transactions)].status = "FAILED"
    /\ transactions[Len(transactions)].transaction_type = "TRANSFER"

\* C9: a transfer between two distinct existing accounts with
\* amount > balance(source) fails, leaves both balances unchanged, adds
\* exactly one failed transfer record on the source and none on the
\* destination, and rewrites only the transactions snapshot.
C9_OverdrawnTransfer ==
    [][\A A \in DOMAIN accounts :
        (/\ last'.op = "transfer"
         /\ last'.account_id = A
         /\ get_account_by_number(accounts, last'.account_number) \notin {None, A}
         /\ last'.amount > accounts[A].balance)
        => /\ ~last'.result
           /\ Balances(accounts') = Balances(accounts)
           /\ AddsRecords(1)
           /\ LET t == transactions'[Len(transactions')]
              IN  /\ t.transaction_type = "TRANSFER"
                  /\ t.account_id = A
                  /\ t.status = "FAILED"
           /\ accounts_file' = accounts_file
           /\ transactions_file' = save_transactions(transactions')]_vars

\* C10: every record reaches the collection and the snapshot in a terminal
\* status (completed or failed), never pending, and a stored record never
\* leaves the status it was stored with.
C10_StatusTerminal ==
    [][/\ \A k \in DOMAIN transactions' :
             transactions'[k].status \in {"COMPLETED", "FAILED"}
       /\ \A k \in DOMAIN transactions_file' :
             transactions_file'[k].status \in {"completed", "failed"}
       /\ \A k \in DOMAIN transactions :
             /\ k \in DOMAIN transactions'
             /\ transactions'[k].status = transactions[k].status
       /\ \A k \in DOMAIN transactions_file :
             /\ k \in DOMAIN transactions_file'
             /\ transactions_file'[k].status = transactions_file[k].status]_vars

\* a completed and a failed record are stored and saved
C10_Witness ==
    /\ Len(transactions) >= 2
    /\ transactions[1].status = "COMPLETED"
    /\ transactions[2].status = "FAILED"
    /\ transactions_file[1].status = "completed"
    /\ transactions_file[2].status = "failed"

\* C11: the transaction log is append-only: the set of transaction ids only
\* grows and every field of a stored record keeps its value.
C11_LogAppendOnly ==
    [][\A k \in DOMAIN transactions :
        /\ k \in DOMAIN transactions'
        /\ transactions'[k].transaction_id = transactions[k].transaction_id
        /\ transactions'[k].account_id = transactions[k].account_id
        /\ transactions'[k].transaction_type = transactions[k].transaction_type
        /\ transactions'[k].amount = transactions[k].amount
        /\ transactions'[k].target_account_id = transactions[k].target_account_id
        /\ transactions'[k].status = transactions[k].status
        /\ transactions'[k].reference_number = transactions[k].reference_number]_vars

\* a call has added a record behind a stored one
C11_Witness ==
    /\ Len(transactions) >= 2
    /\ last.op \in {"deposit", "withdraw", "transfer"}
    /\ transactions[Len(transactions)].transaction_id = Len(transactions)

\* C12: when create_account, deposit, withdraw or transfer returns success,
\* both snapshots hold exactly the in-memory accounts and transactions.
C12_PersistedBeforeSuccess ==
    (last.op \in {"create_account", "deposit", "withdraw", "transfer"} /\ last.result)
    => /\ Len(accounts_file) = Len(accounts)
       /\ \A i \in DOMAIN accounts :
             /\ accounts_file[i].account_id = accounts[i].account_id
             /\ accounts_file[i].account_number = accounts[i].account_number
             /\ accounts_file[i].balance = accounts[i].balance
             /\ accounts_file[i].is_active = accounts[i].is_active
       /\ Len(transactions_file) = Len(transactions)
       /\ \A k \in DOMAIN transactions :
             /\ transactions_file[k].transaction_id = transactions[k].transaction_id
             /\ transactions_file[k].account_id = transactions[k].account_id
             /\ transactions_file[k].amount = transactions[k].amount
             /\ transactions_file[k].transaction_type
                  = TransactionTypeValue[transactions[k].transaction_type]
             /\ transactions_file[k].status
                  = TransactionStatusValue[transactions[k].status]

\* a successful transfer has returned and its two records are in the snapshot
C12_Witness ==
    /\ last.op = "transfer" /\ last.result
    /\ Len(transactions_file) >= 2
    /\ transactions_file[Len(transactions_file)].transaction_type = "deposit"
    /\ Len(accounts_file) >= 2

\* C16: create_account returns a new account whose balance is
\* initial_balance; with initial_balance > 0 it adds exactly one completed
\* deposit record of that amount owned by the new account, with
\* initial_balance = 0 it adds none; stored accounts and records are unchanged.
C16_CreateAccount ==
    [][(last'.op = "create_account")
        => LET id == last'.account_id
               n == Len(transactions)
           IN  /\ last'.result
               /\ id \notin DOMAIN accounts
               /\ DOMAIN accounts' = DOMAIN accounts \cup {id}
               /\ \A i \in DOMAIN accounts : accounts'[i] = accounts[i]
               /\ accounts'[id].account_id = id
               /\ accounts'[id].balance = last'.amount
               /\ (last'.amount > 0 =>
                     /\ AddsRecords(1)
                     /\ transactions'[n + 1].transaction_type = "DEPOSIT"
                     /\ transactions'[n + 1].status = "COMPLETED"
                     /\ transactions'[n + 1].amount = last'.amount
                     /\ transactions'[n + 1].account_id = id)
               /\ (last'.amount = 0 => AddsRecords(0))]_vars

\* an account was opened with a positive balance behind an existing one
C16_Witness ==
    /\ last.op = "create_account"
    /\ last.amount > 0
    /\ last.account_id = 2
    /\ Len(accounts) = 2
    /\ transactions[Len(transactions)].account_id = 2

\* C17: no two accounts have the same account number.
C17_AccountNumbersUnique ==
    \A i \in DOMAIN accounts, j \in DOMAIN accounts :
        i # j => accounts[i].account_number # accounts[j].account_number

\* ---- identity store ------------------------------------------------------
\* the call that has just returned is op
Returned(op) == last = Idle /\ last'.op = op

\* C18: register_user with a username that exactly equals the username of an
\* existing user, active or not, returns failure and leaves the users and their
\* snapshot unchanged; with any other username it appends exactly one active
\* user that holds the hash of the password, never the password itself, and
\* saves the collection.
C18_RegisterUser ==
    [][Returned("register_user") =>
         IF \E i \in DOMAIN users : users[i].username = last'.username
         THEN /\ last'.result = FALSE
              /\ users' = users
              /\ users_file' = users_file
         ELSE /\ last'.result = TRUE
              /\ Len(users') = Len(users) + 1
              /\ SubSeq(users', 1, Len(users)) = users
              /\ users'[Len(users')].username = last'.username
              /\ users'[Len(users')].is_active
              /\ users'[Len(users')].password_hash = hash_password(last'.password)
              /\ users'[Len(users')].password_hash # last'.password
              /\ users_file' = save_users(users')
              /\ users_file'[Len(users')].password_hash # last'.password]_vars

\* a registration of "Alice" succeeded although "alice" exists
C18_Witness ==
    /\ last.op = "register_user"
    /\ last.result
    /\ last.username = "Alice"
    /\ \E i \in DOMAIN users : users[i].username = "alice"
    /\ users[Len(users)].username = "Alice"

\* C19: authenticate_user returns a user exactly when some user has that
\* username, a stored hash equal to the hash of the password, and is active; on
\* success that user's last login is set and the users are saved; on failure
\* nothing is changed or saved.
C19_AuthenticateUser ==
    [][Returned("authenticate_user") =>
         /\ (last'.user # None) <=>
                \E i \in DOMAIN users :
                    /\ users[i].username = last'.username
                    /\ users[i].password_hash = hash_password(last'.password)
                    /\ users[i].is_active
         /\ last'.result <=> (last'.user # None)
         /\ IF last'.user # None
            THEN /\ last'.user \in DOMAIN users
                 /\ users[last'.user].username = last'.username
                 /\ users[last'.user].password_hash = hash_password(last'.password)
                 /\ users[last'.user].is_active
                 /\ users'[last'.user].last_login \in Times
                 /\ users' = [users EXCEPT ![last'.user].last_login =
                                               users'[last'.user].last_login]
                 /\ users_file' = save_users(users')
                 /\ users_file'[last'.user].last_login =
                        isoformat(users'[last'.user].last_login)
            ELSE /\ users' = users
                 /\ users_file' = users_file]_vars

\* a login succeeded and its time is stored and saved
C19_Witness ==
    /\ last.op = "authenticate_user"
    /\ last.user # None
    /\ users[last.user].last_login # None
    /\ users_file[last.user].last_login # JsonNull

\* C20: users are never removed, only deactivated: the user ids only grow, a
\* successful deactivate_user leaves the user inactive, an inactive user stays
\* inactive, and authenticate_user never returns a user that is inactive,
\* whatever password is supplied and whatever password changes were made.
C20_NeverDeletedOnlyDeactivated ==
    [][/\ Len(users') >= Len(users)
       /\ \A i \in DOMAIN users :
              /\ users'[i].user_id = users[i].user_id
              /\ ~users[i].is_active => ~users'[i].is_active
       /\ (Returned("deactivate_user") /\ last'.result) =>
              ~users'[last'.user_id].is_active
       /\ (Returned("authenticate_user") /\ last'.user # None) =>
              users[last'.user].is_active]_vars

\* a deactivated user whose password was changed afterwards presents the
\* right password and is turned away
C20_Witness ==
    /\ last.op = "authenticate_user"
    /\ last.user = None
    /\ \E i \in DOMAIN users :
           /\ ~users[i].is_active
           /\ users[i].username = last.username
           /\ users[i].password_hash = hash_password(last.password)
           /\ users[i].password_hash # hash_password("admin123")
           /\ users[i].username = "admin"
\* ---- sessions ------------------------------------------------------------
\* C15: when two BankSystem instances over the same data directory withdraw
\* from the same account, no withdrawal succeeds on a stale balance: a
\* successful withdrawal is covered by the durable balance it finds, and the
\* durable balance afterwards is that balance less the amount, so that the
\* effect of the other instance is kept.
C15_NoStaleWithdraw ==
    [][(Returned("withdraw") /\ last'.result) =>
         /\ last'.account_id \in DOMAIN accounts_file
         /\ accounts_file[last'.account_id].balance >= last'.amount
         /\ accounts_file'[last'.account_id].balance =
                accounts_file[last'.account_id].balance - last'.amount]_vars
\* ---- failures -------------------------------------------------------------
\* C13: when a save fails during create_account, deposit, withdraw or
\* transfer, the caller is told of the failure and the collections in memory
\* are the ones that were persisted: the change is absent from memory or was
\* rolled back.
C13_SaveFailureLeavesMemoryAsPersisted ==
    [][(last = Idle /\ last'.raised) =>
         /\ ~last'.result
         /\ accounts_file' = save_accounts(accounts')
         /\ transactions_file' = save_transactions(transactions')]_vars

\* C14: if the process stops inside a successful deposit, withdraw or
\* transfer, the accounts and transactions snapshots together hold either all
\* of the effects of that call or none of them.
C14_AllOrNothing ==
    [][(last = Idle /\ "stopped" \in DOMAIN last'
            /\ last'.op \in {"deposit", "withdraw", "transfer"}) =>
         \E call \in LedgerCalls :
             /\ call.op = last'.op
             /\ call.account_id = last'.account_id
             /\ call.account_number = last'.account_number
             /\ call.amount = last'.amount
             /\ \/ /\ accounts_file' = accounts_file
                   /\ transactions_file' = transactions_file
                \/ /\ accounts_file' = save_accounts(call.accounts)
                   /\ transactions_file' = save_transactions(call.transactions)]_vars
\* ---- passwords and start-up ------------------------------------------------
\* C21: change_password succeeds exactly when the user exists and the old
\* password verifies against the stored hash; on success the stored hash is the
\* hash of the new password and is saved, so that the user, if active, is
\* matched by the new password and no longer by a different old one; on
\* failure the users and their snapshot are unchanged.
C21_ChangePassword ==
    [][Returned("change_password") =>
         /\ last'.result <=>
                /\ last'.user_id \in DOMAIN users
                /\ users[last'.user_id].password_hash = hash_password(last'.password)
         /\ IF last'.result
            THEN /\ users' = [users EXCEPT ![last'.user_id].password_hash =
                                               hash_password(last'.new_password)]
                 /\ users_file' = save_users(users')
                 /\ users_file'[last'.user_id].password_hash =
                        hash_password(last'.new_password)
                 /\ users'[last'.user_id].is_active =>
                        authenticate_match(users'[last'.user_id],
                                           users'[last'.user_id].username,
                                           last'.new_password)
                 /\ last'.password # last'.new_password =>
                        ~authenticate_match(users'[last'.user_id],
                                            users'[last'.user_id].username,
                                            last'.password)
            ELSE /\ users' = users
                 /\ users_file' = users_file]_vars

\* a password was changed to a different one
C21_Witness ==
    /\ last.op = "change_password"
    /\ last.result
    /\ last.password # last.new_password
    /\ users[last.user_id].password_hash = hash_password(last.new_password)
    /\ users[last.user_id].is_active

\* C22: when an AuthManager starts, if the loaded users are empty exactly one
\* user is created, named admin, with role admin, active, and saved; if they
\* are not empty no user is created and the collection is the loaded one.
C22_DefaultAdmin ==
    [][Returned("AuthManager") =>
         IF load_users(users_file) = <<>>
         THEN /\ Len(users') = 1
              /\ users'[1].username = "admin"
              /\ users'[1].role = "admin"
              /\ users'[1].is_active
              /\ users_file' = save_users(users')
         ELSE /\ users' = load_users(users_file)
              /\ users_file' = users_file]_vars

\* an AuthManager started over a stored collection of several users, one of
\* them inactive, and created nobody
C22_Witness ==
    /\ last.op = "AuthManager"
    /\ Len(users) > 1
    /\ \E i \in DOMAIN users : ~users[i].is_active
    /\ \A i \in DOMAIN users : i > 1 => users[i].username # "admin"

\* ---- persistence ------------------------------------------------------------
\* C23: loading any of the three collections from a missing or damaged unit
\* returns the empty collection and never raises, whatever the damage:
\* unparseable text, missing fields, invalid enum or timestamp values, content
\* that is not an object of objects.
C23_LoadNeverRaises ==
    (last.op \in {"load_users", "load_accounts", "load_transactions"}) =>
        /\ ~last.raised
        /\ last.error # NoError => last.value = <<>>

\* C24: for each of the three collections, loading what was saved from a
\* collection returns a collection with the same keys and, in every record,
\* the same value of every persisted field.
C24_RoundTrip ==
    [][/\ (Returned("load_users")
            /\ users_file = StoredText(JsonObject(save_users(users))))
           => (~last'.raised /\ last'.value = users /\ users' = users)
       /\ (Returned("load_accounts")
            /\ accounts_file = StoredText(JsonObject(save_accounts(accounts))))
           => (~last'.raised /\ last'.value = accounts /\ accounts' = accounts)
       /\ (Returned("load_transactions")
            /\ transactions_file =
                   StoredText(JsonObject(save_transactions(transactions))))
           => (~last'.raised /\ last'.value = transactions
               /\ transactions' = transactions)]_vars

\* transactions of several statuses, one with a target account, were saved
\* and loaded back
C24_Witness ==
    /\ last.op = "load_transactions"
    /\ last.value = transactions
    /\ transactions_file = StoredText(JsonObject(save_transactions(transactions)))
    /\ Len(transactions) = MaxRecords
    /\ transactions[1].status = "FAILED"
    /\ transactions[2].status = "COMPLETED"
    /\ transactions[2].target_account_id # None

\* ---- reports ----------------------------------------------------------------
\* sum of the amounts of the records at the positions ids
RECURSIVE SumOver(_, _)
SumOver(txs, ids) ==
    IF ids = {} THEN 0
    ELSE LET i == CHOOSE x \in ids : TRUE
         IN  txs[i].amount + SumOver(txs, ids \ {i})

\* positions of the completed records of a type created inside the window
CompletedInWindow(txs, transaction_type, now, days) ==
    {i \in DOMAIN txs : /\ txs[i].transaction_type = transaction_type
                        /\ txs[i].status = "COMPLETED"
                        /\ now - days <= txs[i].created_at
                        /\ txs[i].created_at <= now}

\* the log with the records in another order
Reordered(txs, p) == [i \in DOMAIN txs |-> txs[p[i]]]

C26_SystemStats ==
    (last.op = "get_system_stats") =>
        /\ last.stats.total_users =
               Cardinality({i \in DOMAIN users : users[i].is_active})
        /\ last.stats.total_accounts =
               Cardinality({i \in DOMAIN accounts : accounts[i].is_active})
        /\ last.stats.total_balance =
               SumBalances(accounts, {i \in DOMAIN accounts : accounts[i].is_active})
        /\ last.stats.total_transactions = Len(transactions)

\* ---- ledger, continued ----------------------------------------------------
\* C27: a deposit of amount > 0 on an existing account succeeds: the balance of
\* the account grows by exactly amount, every other balance is unchanged and
\* exactly one record, a completed deposit, is added; the failure branch of
\* deposit is never taken, so no failed deposit record exists.
C27_DepositSucceeds ==
    [][/\ (Returned("deposit") /\ last'.account_id \in DOMAIN accounts
                                /\ last'.amount > 0)
           => /\ last'.result
              /\ Balances(accounts') =
                     [Balances(accounts) EXCEPT ![last'.account_id] = @ + last'.amount]
              /\ AddsRecords(1)
              /\ LET t == transactions'[Len(transactions')]
                 IN  /\ t.transaction_type = "DEPOSIT"
                     /\ t.account_id = last'.account_id
                     /\ t.amount = last'.amount
                     /\ t.status = "COMPLETED"
       /\ \A i \in DOMAIN transactions' :
              ~(/\ transactions'[i].transaction_type = "DEPOSIT"
                /\ transactions'[i].status = "FAILED")]_vars

\* a deposit on the second of two accounts has returned success
C27_Witness ==
    /\ last.op = "deposit"
    /\ last.result
    /\ last.amount > 0
    /\ last.account_id = 2
    /\ Len(accounts) = 2
    /\ transactions[Len(transactions)].status = "COMPLETED"

\* positions of the completed records of a type that an account owns
CompletedOwned(txs, account_id, transaction_type) ==
    {i \in DOMAIN txs : /\ txs[i].account_id = account_id
                        /\ txs[i].transaction_type = transaction_type
                        /\ txs[i].status = "COMPLETED"}

C29_InactiveAccounts ==
    [][LET id == last'.account_id
           amount == last'.amount
           inactive_source == id \in DOMAIN accounts /\ ~accounts[id].is_active
           destinations == ActiveWithNumber(accounts, last'.account_number)
       IN  /\ (Returned("transfer") /\ destinations = {})
                  => (~last'.result /\ NothingChanges)
           /\ (Returned("deposit") /\ inactive_source /\ amount > 0)
                  => /\ last'.result
                     /\ accounts'[id].balance = accounts[id].balance + amount
                     /\ AddsRecords(1)
           /\ (Returned("withdraw") /\ inactive_source /\ amount > 0
                                     /\ amount <= accounts[id].balance)
                  => /\ last'.result
                     /\ accounts'[id].balance = accounts[id].balance - amount
                     /\ AddsRecords(1)
           /\ (Returned("transfer") /\ inactive_source /\ amount > 0
                                     /\ amount <= accounts[id].balance
                                     /\ destinations # {})
                  => /\ last'.result
                     /\ accounts'[id].balance = accounts[id].balance - amount
                     /\ \E to \in destinations :
                            accounts'[to].balance = accounts[to].balance + amount
                     /\ AddsRecords(2)]_vars

\* a deposit on an inactive account went through, and then a transfer of
\* money the source holds to the number of that inactive account was refused
C29_Witness ==
    /\ last.op = "transfer"
    /\ ~last.result
    /\ last.amount > 0
    /\ last.account_id \in DOMAIN accounts
    /\ accounts[last.account_id].balance >= last.amount
    /\ ActiveWithNumber(accounts, last.account_number) = {}
    /\ \E i \in DOMAIN accounts :
           /\ accounts[i].account_number = last.account_number
           /\ ~accounts[i].is_active
           /\ \E k \in DOMAIN transactions :
                  /\ transactions[k].account_id = i
                  /\ transactions[k].transaction_type = "DEPOSIT"
                  /\ transactions[k].status = "COMPLETED"

\* C30: after any sequence of register_user, authenticate_user,
\* change_password, deactivate_user and update_user calls no two users have
\* the same username.
C30_UsernamesUnique ==
    \A i, j \in DOMAIN users : users[i].username = users[j].username => i = j
====
